---- MODULE Spec2Model ----
(***************************************************************************)
(* Model of clinicadl/generate/artefacts/generate_trivial_contrast_cli.py  *)
(* : the click command `trivial_contrast` and generate_contrast_dataset,   *)
(* with its per-row job create_contrast_image run under joblib.Parallel.   *)
(*                                                                         *)
(* Strings are sequences of tokens; the separators "-" and "_" are tokens  *)
(* of their own, so str.split and str.join are modelled by what they do.   *)
(* Paths are sequences of components (each component a string).            *)
(* Gamma values are in hundredths (-20 stands for -0.2).                   *)
(***************************************************************************)
EXTENDS Integers, Sequences, FiniteSets, TLC

VARIABLES pc, err, params, commandline_json, data_df, output_df, job,
          finished, dirs, images, data_tsv, missing_mods

vars == <<pc, err, params, commandline_json, data_df, output_df, job,
          finished, dirs, images, data_tsv, missing_mods>>

-----------------------------------------------------------------------------
(* Bounds of the model *)
MaxRows == 2
MaxProc == 2

-----------------------------------------------------------------------------
(* Inputs *)
caps_directory == <<"caps">>
output_dir == <<"out">>
preprocessing == <<"t1", "-", "linear">>

GammaInputs == { <<-20, -5>>, <<-100, 100>>, <<-150, 200>> }

GammaMin == -100
GammaMax == 100

sub01 == <<"sub", "-", "01">>
subA1 == <<"sub", "-", "A", "-", "1">>
subA2 == <<"sub", "-", "A", "-", "2">>
sesM00 == <<"ses", "-", "M00">>
sesM12 == <<"ses", "-", "M12">>

InputRow(p, s, c) == [participant_id |-> p, session_id |-> s, cohort |-> c]

RowUniverse ==
    { InputRow(sub01, sesM00, "c1"), InputRow(sub01, sesM00, "c2"),
      InputRow(sub01, sesM12, "c1"), InputRow(subA1, sesM00, "c1"),
      InputRow(subA2, sesM00, "c1") }

Tables == UNION { [1..n -> RowUniverse] : n \in 0..MaxRows }

-----------------------------------------------------------------------------
(* str.split / str.join *)
HasSep(s, sep) == \E k \in 1..Len(s) : s[k] = sep

FirstSep(s, sep) ==
    CHOOSE k \in 1..Len(s) : s[k] = sep /\ \A j \in 1..(k-1) : s[j] # sep

RECURSIVE Split(_, _)
Split(s, sep) ==
    IF ~HasSep(s, sep) THEN <<s>>
    ELSE LET k == FirstSep(s, sep)
         IN  <<SubSeq(s, 1, k-1)>> \o Split(SubSeq(s, k+1, Len(s)), sep)

RECURSIVE Join(_, _)
Join(fields, sep) ==
    IF fields = <<>> THEN <<>>
    ELSE IF Len(fields) = 1 THEN fields[1]
    ELSE fields[1] \o <<sep>> \o Join(Tail(fields), sep)

(* seq[2::] *)
FromThird(fields) == SubSeq(fields, 3, Len(fields))

-----------------------------------------------------------------------------
(* pandas: DataFrame, concat, to_csv *)
columns == <<"participant_id", "session_id", "diagnosis">>

DataFrame(cols, rows) == [columns |-> cols, rows |-> rows]

EmptyDataFrame == DataFrame(<<>>, <<>>)

InCols(cols, c) == \E k \in 1..Len(cols) : cols[k] = c

ColSet(cols) == { cols[k] : k \in 1..Len(cols) }

UnionCols(a, b) == a \o SelectSeq(b, LAMBDA c : ~InCols(a, c))

Reindex(rows, cols) ==
    [i \in 1..Len(rows) |->
        [c \in ColSet(cols) |->
            IF c \in DOMAIN rows[i] THEN rows[i][c] ELSE <<"nan">>]]

ConcatDropSecond(a, b) ==
    DataFrame(UnionCols(a.columns, b.columns),
              Reindex(a.rows, UnionCols(a.columns, b.columns)))

Concat(a, b) ==
    LET cols == UnionCols(a.columns, b.columns)
    IN  DataFrame(cols, Reindex(a.rows, cols) \o Reindex(b.rows, cols))

ToCsv(df) ==
    <<[k \in 1..Len(df.columns) |-> <<df.columns[k]>>]>> \o
    [i \in 1..Len(df.rows) |->
        [k \in 1..Len(df.columns) |-> df.rows[i][df.columns[k]]]]

-----------------------------------------------------------------------------
(* create_contrast_image: names and paths *)
caps_dict == [c \in {"c1", "c2"} |-> <<caps_directory, <<c>>>>]

file_type == <<"space-MNI152NLin2009cSym", "_", "desc-Crop", "_",
               "res-1x1x1", "_", "T1w.nii.gz">>

clinica_file_reader(participant_id, session_id, caps, ft) ==
    caps \o <<<<"subjects">>, participant_id, session_id, <<"t1_linear">>,
              participant_id \o <<"_">> \o session_id \o <<"_">> \o ft>>

Name(path) == path[Len(path)]

filename_pattern(input_filename) == Join(FromThird(Split(input_filename, "_")), "_")

subject_id(participant_id) == Split(participant_id, "-")[2]

SubCont(sid) == <<"sub", "-", "CONT">> \o sid

contrast_image_nii_dir(participant_id, session_id) ==
    <<output_dir, <<"subjects">>, SubCont(subject_id(participant_id)),
      session_id, preprocessing>>

contrast_image_nii_filename(participant_id, session_id, input_filename) ==
    SubCont(subject_id(participant_id)) \o <<"_">> \o session_id \o <<"_">>
        \o filename_pattern(input_filename)

row_df(participant_id, session_id) ==
    DataFrame(columns,
              << [participant_id |-> SubCont(subject_id(participant_id)),
                  session_id |-> session_id,
                  diagnosis |-> <<"contrast">>] >>)

log_gamma(g) == <<g[1], g[2]>>

-----------------------------------------------------------------------------
NoJob == [state |-> "pending", image_path |-> <<>>, saved |-> <<>>,
          log_gamma |-> <<>>, arg |-> EmptyDataFrame, result |-> EmptyDataFrame]

N == Len(data_df)

Running == { i \in 1..Len(job) : job[i].state \in {"found", "saved"} }

Started(i) == job[i].state # "pending"

AnyFailed == \E i \in 1..Len(job) : job[i].state = "failed"

Init ==
    /\ pc = "cli"
    /\ err = "none"
    /\ params = [gamma |-> <<>>, n_proc |-> 0]
    /\ commandline_json = {}
    /\ data_df = <<>>
    /\ output_df = EmptyDataFrame
    /\ job = <<>>
    /\ finished = <<>>
    /\ dirs = {}
    /\ images = {}
    /\ data_tsv = <<>>
    /\ missing_mods = <<>>

(* cli: the options are passed on as given; --gamma is any float *)
Cli ==
    /\ pc = "cli"
    /\ \E g \in GammaInputs, n \in 1..MaxProc :
          params' = [gamma |-> g, n_proc |-> n]
    /\ pc' = "start"
    /\ UNCHANGED <<err, commandline_json, data_df, output_df, job, finished,
                   dirs, images, data_tsv, missing_mods>>

commandline_to_json(d) == d

WriteCommandline ==
    /\ pc = "start"
    /\ commandline_json' = commandline_to_json(
          { <<"output_dir", output_dir>>, <<"caps_dir", caps_directory>>,
            <<"preprocessing", preprocessing>> })
    /\ pc' = "load"
    /\ UNCHANGED <<err, params, data_df, output_df, job, finished, dirs,
                   images, data_tsv, missing_mods>>

(* create_caps_dict, load_and_check_tsv, mkdir subjects, output_df,         *)
(* find_file_type                                                          *)
LoadTsv ==
    /\ pc = "load"
    /\ \E t \in Tables :
          /\ data_df' = t
          /\ job' = [i \in 1..Len(t) |-> NoJob]
    /\ dirs' = dirs \cup { <<output_dir, <<"subjects">>>> }
    /\ output_df' = DataFrame(columns, <<>>)
    /\ pc' = "parallel"
    /\ UNCHANGED <<err, params, commandline_json, finished, images, data_tsv,
                   missing_mods>>

JobArgumentShared ==
    IF finished = <<>> THEN output_df
    ELSE job[finished[Len(finished)]].result

JobArgument == output_df

CanDispatch(i) ==
    /\ pc = "parallel"
    /\ i \in 1..Len(job)
    /\ job[i].state = "pending"
    /\ \A j \in 1..(i-1) : Started(j)
    /\ Cardinality(Running) < params.n_proc

(* job dispatched; lines 86-96 *)
FindImage(i) ==
    /\ CanDispatch(i)
    /\ job' = [job EXCEPT ![i] =
          [@ EXCEPT !.state = "found",
                    !.arg = JobArgument,
                    !.image_path = clinica_file_reader(
                        data_df[i].participant_id, data_df[i].session_id,
                        caps_dict[data_df[i].cohort], file_type)]]
    /\ UNCHANGED <<pc, err, params, commandline_json, data_df, output_df,
                   finished, dirs, images, data_tsv, missing_mods>>

(* clinica_file_reader raises: no such image *)
FindImageFails(i) ==
    /\ CanDispatch(i)
    /\ job' = [job EXCEPT ![i] = [@ EXCEPT !.state = "failed", !.arg = JobArgument]]
    /\ UNCHANGED <<pc, err, params, commandline_json, data_df, output_df,
                   finished, dirs, images, data_tsv, missing_mods>>

(* lines 98-116: mkdir, RandomGamma, save *)
SaveImage(i) ==
    /\ pc = "parallel"
    /\ i \in 1..Len(job)
    /\ job[i].state = "found"
    /\ LET p    == data_df[i].participant_id
           s    == data_df[i].session_id
           dir  == contrast_image_nii_dir(p, s)
           path == Append(dir, contrast_image_nii_filename(p, s, Name(job[i].image_path)))
           lg   == log_gamma(params.gamma)
       IN  /\ dirs' = dirs \cup {dir}
           /\ images' = { f \in images : f.path # path } \cup
                        { [path |-> path, source |-> job[i].image_path, log_gamma |-> lg] }
           /\ job' = [job EXCEPT ![i] =
                        [@ EXCEPT !.state = "saved", !.saved = path, !.log_gamma = lg]]
    /\ UNCHANGED <<pc, err, params, commandline_json, data_df, output_df,
                   finished, data_tsv, missing_mods>>

(* the transform or the save raises; the directory was made before *)
SaveImageFails(i) ==
    /\ pc = "parallel"
    /\ i \in 1..Len(job)
    /\ job[i].state = "found"
    /\ dirs' = dirs \cup { contrast_image_nii_dir(data_df[i].participant_id,
                                                  data_df[i].session_id) }
    /\ job' = [job EXCEPT ![i] = [@ EXCEPT !.state = "failed"]]
    /\ UNCHANGED <<pc, err, params, commandline_json, data_df, output_df,
                   finished, images, data_tsv, missing_mods>>

(* lines 118-123 *)
ReturnRow(i) ==
    /\ pc = "parallel"
    /\ i \in 1..Len(job)
    /\ job[i].state = "saved"
    /\ job' = [job EXCEPT ![i] =
          [@ EXCEPT !.state = "done",
                    !.result = Concat(job[i].arg,
                                      row_df(data_df[i].participant_id,
                                             data_df[i].session_id))]]
    /\ finished' = Append(finished, i)
    /\ UNCHANGED <<pc, err, params, commandline_json, data_df, output_df,
                   dirs, images, data_tsv, missing_mods>>

(* Parallel re-raises the exception of a failed job *)
ParallelRaise ==
    /\ pc = "parallel"
    /\ AnyFailed
    /\ pc' = "error"
    /\ err' = "JobError"
    /\ UNCHANGED <<params, commandline_json, data_df, output_df, job,
                   finished, dirs, images, data_tsv, missing_mods>>

AllJobsSettled == \A i \in 1..Len(job) : job[i].state \in {"done", "failed"}

AllJobsReturned == \A i \in 1..Len(job) : job[i].state = "done"

results_df == [i \in 1..Len(job) |-> job[i].result]

AccumulateAppend(result, acc) == Concat(acc, result)

Accumulate(result, acc) == Concat(result, acc)

RECURSIVE Fold(_, _)
Fold(results, acc) ==
    IF results = <<>> THEN acc
    ELSE Fold(Tail(results), Accumulate(Head(results), acc))

(* lines 125-131: the results, in input order, folded into a new table *)
Collect ==
    /\ pc = "parallel"
    /\ AllJobsReturned
    /\ output_df' = Fold(results_df, EmptyDataFrame)
    /\ pc' = "collected"
    /\ UNCHANGED <<err, params, commandline_json, data_df, job, finished,
                   dirs, images, data_tsv, missing_mods>>

WriteTsv ==
    /\ pc = "collected"
    /\ data_tsv' = ToCsv(output_df)
    /\ pc' = "tsv"
    /\ UNCHANGED <<err, params, commandline_json, data_df, output_df, job,
                   finished, dirs, images, missing_mods>>

write_missing_mods(df) ==
    << [i \in 1..Len(df.rows) |-> <<df.rows[i].session_id, df.rows[i].participant_id>>] >>

WriteMissingMods ==
    /\ pc = "tsv"
    /\ missing_mods' = write_missing_mods(output_df)
    /\ dirs' = dirs \cup { <<output_dir, <<"missing_mods">>>> }
    /\ pc' = "mods"
    /\ UNCHANGED <<err, params, commandline_json, data_df, output_df, job,
                   finished, images, data_tsv>>

(* line 137: `logger` is not defined in the module *)
LogInfo ==
    /\ pc = "mods"
    /\ pc' = "error"
    /\ err' = "NameError"
    /\ UNCHANGED <<params, commandline_json, data_df, output_df, job,
                   finished, dirs, images, data_tsv, missing_mods>>

Next ==
    \/ Cli
    \/ WriteCommandline
    \/ LoadTsv
    \/ \E i \in 1..MaxRows : FindImage(i)
    \/ \E i \in 1..MaxRows : FindImageFails(i)
    \/ \E i \in 1..MaxRows : SaveImage(i)
    \/ \E i \in 1..MaxRows : SaveImageFails(i)
    \/ \E i \in 1..MaxRows : ReturnRow(i)
    \/ ParallelRaise
    \/ Collect
    \/ WriteTsv
    \/ WriteMissingMods
    \/ LogInfo

Spec == Init /\ [][Next]_vars

-----------------------------------------------------------------------------
(* Helpers of the properties *)
Written == data_tsv # <<>>

Header == [k \in 1..Len(columns) |-> <<columns[k]>>]

(* the participant label: participant_id without its "sub-" prefix *)
StripSubPrefix(participant_id) == SubSeq(participant_id, 3, Len(participant_id))

ManifestLine(r) ==
    <<SubCont(subject_id(r.participant_id)), r.session_id, <<"contrast">>>>

RECURSIVE ReversedLines(_)
ReversedLines(t) ==
    IF t = <<>> THEN <<>>
    ELSE ReversedLines(Tail(t)) \o <<ManifestLine(Head(t))>>

ExpectedCsv(t) == IF t = <<>> THEN << <<>> >> ELSE <<Header>> \o ReversedLines(t)

Terminated == pc \in {"done", "error"}

AllParameters ==
    {"caps_dir", "output_dir", "n_proc", "preprocessing", "tsv_path",
     "uncropped_image", "tracer", "suvr_reference_region", "gamma"}

RecordedKeys == { kv[1] : kv \in commandline_json }

InRange(lg) == \A k \in 1..Len(lg) : GammaMin <= lg[k] /\ lg[k] <= GammaMax

-----------------------------------------------------------------------------
(* C1: when every job succeeds, data.tsv has exactly as many rows as the   *)
(* input table (N >= 0), and every job that was handed a table without     *)
(* rows returns a table of exactly one row.                                *)
C1_OneRowPerInput ==
    /\ Written => Len(data_tsv) - 1 = Len(data_df)
    /\ \A i \in 1..Len(job) :
          (job[i].state = "done" /\ job[i].arg.rows = <<>>)
              => Len(job[i].result.rows) = 1

C1_Witness == Written /\ Len(data_df) >= 2 /\ Len(data_tsv) = Len(data_df) + 1

(* C2: every saved image is at                                             *)
(* <output_dir>/subjects/sub-CONT<id>/<session>/<preprocessing>/           *)
(* sub-CONT<id>_<session>_<suffix>, <id> being participant_id without its  *)
(* "sub-" prefix and <suffix> the input file name without its first two    *)
(* underscore-separated fields; the manifest row of the job carries        *)
(* sub-CONT<id> and the same session.                                      *)
C2_OutputNaming ==
    \A i \in 1..Len(job) :
       LET p   == data_df[i].participant_id
           s   == data_df[i].session_id
           id  == StripSubPrefix(p)
           suf == Join(FromThird(Split(Name(job[i].image_path), "_")), "_")
       IN  /\ job[i].state \in {"saved", "done"} =>
                 job[i].saved =
                    <<output_dir, <<"subjects">>, SubCont(id), s, preprocessing,
                      SubCont(id) \o <<"_">> \o s \o <<"_">> \o suf>>
           /\ job[i].state = "done" =>
                 /\ job[i].result.rows[Len(job[i].result.rows)].participant_id
                        = SubCont(id)
                 /\ job[i].result.rows[Len(job[i].result.rows)].session_id = s

(* C3: once a job has failed, the run never gets to the collection: the    *)
(* data.tsv manifest and the missing-modalities report stay unwritten and  *)
(* the run can only end in the error state with the job's exception.       *)
C3_FailureIsFatal ==
    AnyFailed =>
        /\ data_tsv = <<>>
        /\ missing_mods = <<>>
        /\ pc \in {"parallel", "error"}
        /\ (pc = "error" => err = "JobError")

C3_Witness ==
    /\ pc = "error"
    /\ AnyFailed
    /\ \E i \in 1..Len(job) : job[i].state = "done"
    /\ data_tsv = <<>>

(* C4: the manifest is assembled only after every job has returned, every  *)
(* job is handed the table without rows (it never observes a row appended  *)
(* by another job), and the manifest written is a function of the input    *)
(* table alone, whatever the interleaving and completion order.            *)
C4_JobsIndependent ==
    /\ (pc \in {"collected", "tsv", "mods"} \/ Written) => AllJobsReturned
    /\ \A i \in 1..Len(job) : Started(i) => job[i].arg.rows = <<>>
    /\ Written => data_tsv = ExpectedCsv(data_df)

C4_Witness ==
    /\ Written
    /\ Len(finished) >= 2
    /\ finished[1] # 1
    /\ params.n_proc >= 2

(* C5: when no job fails, the run ends without an error, the manifest and  *)
(* the missing-modalities report written.                                  *)
C5_NormalTermination ==
    (Terminated /\ ~AnyFailed) =>
        /\ err = "none"
        /\ Written
        /\ missing_mods # <<>>

(* C6: every log-gamma range handed to the gamma transform, and recorded   *)
(* in a saved image, lies between -1 and 1.                                *)
C6_GammaInRange ==
    /\ \A i \in 1..Len(job) : InRange(job[i].log_gamma)
    /\ \A f \in images : InRange(f.log_gamma)

(* C7: from the moment the input table is about to be loaded, the JSON     *)
(* record of the invocation exists and holds every invocation parameter.   *)
C7_ProvenanceRecord ==
    pc \notin {"cli", "start"} =>
        /\ commandline_json # {}
        /\ AllParameters \subseteq RecordedKeys

(* C8: the data.tsv written has exactly the columns participant_id,        *)
(* session_id and diagnosis, also for the empty input table, and every     *)
(* row has the diagnosis "contrast".                                       *)
C8_ManifestColumns ==
    Written =>
        /\ data_tsv[1] = Header
        /\ \A k \in 2..Len(data_tsv) :
              Len(data_tsv[k]) = 3 /\ data_tsv[k][3] = <<"contrast">>

(* C9: two jobs whose input rows differ never save to the same path.       *)
C9_DistinctOutputs ==
    \A i, j \in 1..Len(job) :
        ( /\ job[i].state \in {"saved", "done"}
          /\ job[j].state \in {"saved", "done"}
          /\ data_df[i] # data_df[j] )
        => job[i].saved # job[j].saved

(* C10: the row of input index i is at position N+1-i of the manifest      *)
(* (1-based), whatever order the jobs finished in.                         *)
C10_ReverseOrder ==
    Written =>
        \A i \in 1..Len(data_df) :
            LET line == data_tsv[1 + (Len(data_df) + 1 - i)]
            IN  /\ line[1] = SubCont(subject_id(data_df[i].participant_id))
                /\ line[2] = data_df[i].session_id

C10_Witness ==
    /\ Written
    /\ Len(data_df) >= 2
    /\ data_df[1].session_id # data_df[Len(data_df)].session_id
    /\ finished[1] = Len(data_df)

====
